---- MODULE Spec2Model ----
(***************************************************************************)
(* Model of the AI code reviewer: the Editor Client (App / reviewCode),    *)
(* the Review Service endpoint and the Generative Model Client             *)
(* (generateContent), with several review requests in flight at once.      *)
(* Strings are sequences of one-character strings.                         *)
(***************************************************************************)
EXTENDS Integers, Sequences, FiniteSets, TLC

\* ---------------------------------------------------------------- bounds
\* number of review triggers (clicks) explored
MaxReq == 2

Reqs == 1..MaxReq

\* ---------------------------------------------------------------- inputs
\* initial buffer: the placeholder snippet of useState(`function sum(){...}`)
Placeholder == <<"f", "n">>

\* buffer values the user can type (the empty buffer included)
Codes == {<< >>, Placeholder}

\* texts the external model can produce (the empty text included)
Texts == {<< >>, <<"x">>}

\* error the external API rejects a call with, and error response.text()
\* throws on a malformed response
ApiError == <<"e", "1">>
TextError == <<"e", "2">>

\* message of an axios error that has no response (transport failure)
NetworkError == <<"n">>

\* the fixed review-format instructions given to getGenerativeModel
Template == <<"T">>

\* outcomes of the external call: model.generateContent resolves and
\* response.text() yields a text; model.generateContent rejects; or
\* response.text() throws
Answers == [kind : {"ok"}, val : Texts]
             \cup {[kind |-> "reject", val |-> ApiError],
                   [kind |-> "badtext", val |-> TextError]}

NoAnswer == [kind |-> "pending", val |-> << >>]
NoOut == [kind |-> "none", val |-> << >>]
NoResponse == [status |-> 0, data |-> << >>]
NoModelReq == [systemInstruction |-> << >>, contents |-> << >>]
NoBody == [code |-> << >>]

\* ---------------------------------------------------------------- state
VARIABLES code, review, nreq, client, srv, systemInstruction

vars == <<code, review, nreq, client, srv, systemInstruction>>

IdleClient == [st |-> "idle", body |-> NoBody, posts |-> 0,
               trigCode |-> << >>, trigReview |-> << >>,
               promise |-> "none", logged |-> << >>, applied |-> FALSE]

IdleSrv == [st |-> "none", reqBody |-> NoBody, modelReq |-> NoModelReq,
            calls |-> 0, answer |-> NoAnswer, out |-> NoOut,
            logged |-> << >>, resp |-> NoResponse]

Init ==
    /\ code = Placeholder
    /\ review = << >>
    /\ nreq = 0
    /\ client = [i \in Reqs |-> IdleClient]
    /\ srv = [i \in Reqs |-> IdleSrv]
    /\ systemInstruction = Template

\* ---------------------------------------------------------------- helpers
IsSubstring(s, t) ==
    \E k \in 0..(Len(t) - Len(s)) : SubSeq(t, k + 1, k + Len(s)) = s

\* JavaScript truthiness of a string
Truthy(s) == s # << >>

\* ---------------------------------------------------------------- editor
\* onValueChange={code => setCode(code)}
setCode(c) ==
    /\ c # code
    /\ code' = c
    /\ UNCHANGED <<review, nreq, client, srv, systemInstruction>>

\* variant: an empty buffer is replaced by the placeholder before sending
PostBodyDefaulted(buf) == [code |-> IF buf = << >> THEN Placeholder ELSE buf]

\* the JSON payload {code} built from the buffer captured by the closure
PostBody(buf) == [code |-> buf]

\* onClick={reviewCode}: the synchronous part of reviewCode up to the await
reviewCode ==
    /\ nreq < MaxReq
    /\ nreq' = nreq + 1
    /\ client' = [client EXCEPT ![nreq + 1] =
                     [@ EXCEPT !.st = "waiting",
                               !.body = PostBody(code),
                               !.posts = @ + 1,
                               !.trigCode = code,
                               !.trigReview = review,
                               !.promise = "pending"]]
    /\ UNCHANGED <<code, review, srv, systemInstruction>>

\* value printed by console.error: error.response?.data || error.message
ErrLogged(error) ==
    IF error.response # NoResponse /\ Truthy(error.response.data)
    THEN error.response.data
    ELSE error.message

\* variant: setReview(response.data || review), an empty body is ignored
ReviewThenKeepNonEmpty(i, response) ==
    /\ review' = IF Truthy(response.data) THEN response.data ELSE review
    /\ client' = [client EXCEPT ![i] =
                     [@ EXCEPT !.st = "done", !.promise = "fulfilled",
                               !.applied = TRUE]]

\* setReview(response.data) and normal completion of reviewCode
ReviewThen(i, response) ==
    /\ review' = response.data
    /\ client' = [client EXCEPT ![i] =
                     [@ EXCEPT !.st = "done", !.promise = "fulfilled",
                               !.applied = TRUE]]

\* variant: the catch block also shows the error in the result pane
ReviewCatchShowsError(i, error) ==
    /\ review' = ErrLogged(error)
    /\ client' = [client EXCEPT ![i] =
                     [@ EXCEPT !.st = "done", !.promise = "fulfilled",
                               !.logged = Append(@, ErrLogged(error))]]

\* the catch block of reviewCode: log only, then complete normally
ReviewCatch(i, error) ==
    /\ review' = review
    /\ client' = [client EXCEPT ![i] =
                     [@ EXCEPT !.st = "done", !.promise = "fulfilled",
                               !.logged = Append(@, ErrLogged(error))]]

\* axios settles the POST with the service's HTTP response: a 2xx status
\* resolves the promise, any other status rejects it
Deliver(i) ==
    /\ client[i].st = "waiting"
    /\ srv[i].st = "responded"
    /\ IF srv[i].resp.status = 200
       THEN ReviewThen(i, srv[i].resp)
       ELSE ReviewCatch(i, [response |-> srv[i].resp, message |-> << >>])
    /\ UNCHANGED <<code, nreq, srv, systemInstruction>>

\* axios rejects without a response (connection refused, reset, ...)
TransportFail(i) ==
    /\ client[i].st = "waiting"
    /\ ReviewCatch(i, [response |-> NoResponse, message |-> NetworkError])
    /\ UNCHANGED <<code, nreq, srv, systemInstruction>>

\* ---------------------------------------------------------------- service
\* request handed to the SDK: the configured instructions plus the prompt
ModelRequest(prompt) ==
    [systemInstruction |-> systemInstruction, contents |-> prompt]

\* variant: model.generateContent() is called without the prompt
GenStartNoPrompt(r, prompt) ==
    [r EXCEPT !.st = "awaiting",
              !.modelReq = ModelRequest(<< >>),
              !.calls = @ + 1]

\* generateContent(prompt) up to its first await: one model.generateContent
GenStart(r, prompt) ==
    [r EXCEPT !.st = "awaiting",
              !.modelReq = ModelRequest(prompt),
              !.calls = @ + 1]

\* prompt the review endpoint passes to the model client
ControllerPrompt(body) == body.code

\* POST /api/ai/get-review reaches the service, which calls the model client
getReview(i) ==
    /\ client[i].st # "idle"
    /\ srv[i].st = "none"
    /\ srv' = [srv EXCEPT ![i] =
                  GenStart([@ EXCEPT !.reqBody = client[i].body],
                           ControllerPrompt(client[i].body))]
    /\ UNCHANGED <<code, review, nreq, client, systemInstruction>>

\* the external API settles the pending call (it may also never do so)
ModelAnswer(i, a) ==
    /\ srv[i].st = "awaiting"
    /\ srv' = [srv EXCEPT ![i] = [@ EXCEPT !.st = "answered", !.answer = a]]
    /\ UNCHANGED <<code, review, nreq, client, systemInstruction>>

\* variant: a timeout lets generateContent resume while the call is pending
GenResumableTimeout(r) == r.st \in {"awaiting", "answered"}

\* the awaits of generateContent resume only when the awaited call settled
GenResumable(r) == r.st = "answered"

\* variant: the catch block swallows the error and nothing is returned
OutcomeSwallow(a) ==
    IF a.kind = "ok"
    THEN [kind |-> "return", val |-> a.val]
    ELSE [kind |-> "return", val |-> << >>]

\* variant: an empty text is replaced by a default message
OutcomeFallback(a) ==
    IF a.kind = "ok"
    THEN [kind |-> "return", val |-> IF Truthy(a.val) THEN a.val ELSE <<"?">>]
    ELSE [kind |-> "throw", val |-> a.val]

\* result of the try block: the text of the response, or the error caught
Outcome(a) ==
    IF a.kind = "ok"
    THEN [kind |-> "return", val |-> a.val]
    ELSE [kind |-> "throw", val |-> a.val]

\* variant: a failed call is retried once before the error is rethrown
GenSettleRetry(r) ==
    IF Outcome(r.answer).kind = "throw" /\ r.calls < 2
    THEN [r EXCEPT !.st = "awaiting", !.answer = NoAnswer, !.calls = @ + 1,
                   !.logged = Append(@, Outcome(r.answer).val)]
    ELSE [r EXCEPT !.st = "settled",
                   !.out = Outcome(r.answer),
                   !.logged = IF Outcome(r.answer).kind = "throw"
                              THEN Append(@, Outcome(r.answer).val)
                              ELSE @]

\* rest of generateContent: return the text, or log and rethrow the error
GenSettle(r) ==
    [r EXCEPT !.st = "settled",
              !.out = Outcome(r.answer),
              !.logged = IF Outcome(r.answer).kind = "throw"
                         THEN Append(@, Outcome(r.answer).val)
                         ELSE @]

\* page the HTTP layer sends for an unhandled failure
ErrorPage == <<"!">>

\* the endpoint sends the text verbatim; it does not catch a failure, which
\* the HTTP layer surfaces as a generic server error
HttpResponse(out) ==
    IF out.kind = "return"
    THEN [status |-> 200, data |-> out.val]
    ELSE [status |-> 500, data |-> ErrorPage]

\* the endpoint's continuation once generateContent has returned or thrown
Respond(r) ==
    IF r.st = "settled"
    THEN [r EXCEPT !.st = "responded", !.resp = HttpResponse(r.out)]
    ELSE r

\* variant: the pending calls share one result, so the failure of one call
\* fails every call that is still awaiting its answer
GenContinueShared(i) ==
    /\ GenResumable(srv[i])
    /\ srv' = [j \in Reqs |->
                 IF j = i THEN Respond(GenSettle(srv[i]))
                 ELSE IF srv[i].answer.kind # "ok" /\ srv[j].st = "awaiting"
                      THEN [srv[j] EXCEPT !.st = "answered",
                                          !.answer = srv[i].answer]
                      ELSE srv[j]]
    /\ UNCHANGED <<code, review, nreq, client, systemInstruction>>

\* continuation of one generateContent call and of the endpoint awaiting it
\* (one run of the microtask queue); it touches that request only
GenContinue(i) ==
    /\ GenResumable(srv[i])
    /\ srv' = [srv EXCEPT ![i] = Respond(GenSettle(srv[i]))]
    /\ UNCHANGED <<code, review, nreq, client, systemInstruction>>

\* ---------------------------------------------------------------- system
Next ==
    \/ \E c \in Codes : setCode(c)
    \/ reviewCode
    \/ \E i \in Reqs : getReview(i)
    \/ \E i \in Reqs, a \in Answers : ModelAnswer(i, a)
    \/ \E i \in Reqs : GenContinue(i)
    \/ \E i \in Reqs : Deliver(i)
    \/ \E i \in Reqs : TransportFail(i)

Spec == Init /\ [][Next]_vars

\* the event loop runs every ready continuation; the network delivers every
\* response to a client that still waits.  Clicks, edits, the arrival of the
\* POST and the answer of the external API are not forced.
FairSpec ==
    /\ Spec
    /\ \A i \in Reqs : WF_vars(GenContinue(i))
    /\ \A i \in Reqs : WF_vars(Deliver(i))

\* ---------------------------------------------------------------- properties
Triggered(i) == client[i].st # "idle"
InFlight(i) == client[i].st = "waiting"
Applied(i) == client[i].st = "done" /\ client[i].applied
Failed(i) == client[i].st = "done" /\ ~client[i].applied

\* steps of reviewCode for request i, seen as a pair of states
ThenStep(i) == InFlight(i) /\ client'[i].st = "done" /\ client'[i].applied
CatchStep(i) == InFlight(i) /\ client'[i].st = "done" /\ ~client'[i].applied

\* C1: once no request is in flight, the displayed review is the response to
\* the latest-triggered request (here: whenever that request succeeded)
C1_LatestWins ==
    (nreq >= 1 /\ (\A i \in Reqs : ~InFlight(i)) /\ Applied(nreq))
        => review = srv[nreq].resp.data

\* C2 (as stated): when the POST of request i fails, review after reviewCode
\* completes equals review before that request was triggered, reviewCode
\* completes normally and the error is only logged
C2_ReviewAsBeforeTrigger ==
    [][\A i \in Reqs :
          CatchStep(i) =>
              /\ review' = client[i].trigReview
              /\ client'[i].promise = "fulfilled"
              /\ Len(client'[i].logged) = 1
              /\ code' = code]_vars

\* C2 (amended): the failure path itself leaves review untouched: review after
\* completion equals review just before the rejection was handled, which is
\* the value at the trigger unless the successful response of another request
\* replaced it meanwhile; reviewCode completes normally, the error is logged
\* once and is written to no displayed state
C2_FailureKeepsReview ==
    [][\A i \in Reqs :
          CatchStep(i) =>
              /\ review' = review
              /\ \/ review' = client[i].trigReview
                 \/ \E j \in Reqs \ {i} :
                        Applied(j) /\ srv[j].resp.data = review'
              /\ client'[i].promise = "fulfilled"
              /\ Len(client'[i].logged) = 1
              /\ code' = code]_vars

C2_Witness ==
    \E i \in Reqs :
        /\ Failed(i)
        /\ Len(client[i].logged) = 1
        /\ client[i].promise = "fulfilled"
        /\ review # << >>
        /\ review # client[i].trigReview

\* C3: review starts empty; a successful POST replaces it by exactly the body
\* of that response, whatever it was before, and nothing else changes review
C3_ReviewOnlyFromSuccess ==
    /\ review = << >>
    /\ [][/\ \A i \in Reqs : ThenStep(i) => review' = srv[i].resp.data
          /\ review' # review =>
                 \E i \in Reqs : /\ ThenStep(i)
                                 /\ srv[i].resp.status = 200
                                 /\ review' = srv[i].resp.data]_vars

C3_Witness ==
    \E i \in Reqs :
        /\ Applied(i)
        /\ client[i].trigReview # << >>
        /\ srv[i].resp.data = << >>
        /\ review = << >>

\* C4: for every request received, the model is invoked exactly once (success
\* and failure path alike) with a prompt that contains the submitted code
C4_OneModelCallWithCode ==
    \A i \in Reqs :
        /\ srv[i].st = "none" => srv[i].calls = 0
        /\ srv[i].st # "none" =>
               /\ srv[i].calls = 1
               /\ srv[i].reqBody = client[i].body
               /\ IsSubstring(srv[i].reqBody.code, srv[i].modelReq.contents)

C4_Witness ==
    \E i, j \in Reqs :
        /\ srv[i].st = "responded" /\ srv[i].out.kind = "throw"
        /\ srv[j].st = "responded" /\ srv[j].out.kind = "return"
        /\ srv[i].reqBody.code # << >>
        /\ srv[i].calls = 1 /\ srv[j].calls = 1
        /\ IsSubstring(srv[i].reqBody.code, srv[i].modelReq.contents)

\* C5: when the model client fails while serving a request, the HTTP response
\* to that request is not a 200
C5_FailureNot200 ==
    \A i \in Reqs :
        (srv[i].st = "responded" /\ srv[i].answer.kind # "ok")
            => srv[i].resp.status # 200

C5_Witness ==
    \E i \in Reqs :
        /\ srv[i].st = "responded"
        /\ srv[i].answer.kind = "reject"
        /\ srv[i].resp.status = 500

\* C6: generateContent makes a single attempt: when the model call or reading
\* its text fails, it throws that same error, logged once, never returns a
\* value and never calls the model a second time
C6_SingleAttempt ==
    \A i \in Reqs :
        /\ srv[i].calls <= 1
        /\ srv[i].answer.kind \in {"reject", "badtext"} =>
               /\ srv[i].calls = 1
               /\ srv[i].out.kind # "return"
               /\ srv[i].st = "responded" =>
                      /\ srv[i].out = [kind |-> "throw",
                                       val |-> srv[i].answer.val]
                      /\ srv[i].logged = <<srv[i].answer.val>>

C6_Witness ==
    \E i, j \in Reqs :
        /\ srv[i].st = "responded" /\ srv[i].answer.kind = "badtext"
        /\ srv[i].out = [kind |-> "throw", val |-> TextError]
        /\ srv[j].st = "responded" /\ srv[j].answer.kind = "reject"
        /\ srv[j].out = [kind |-> "throw", val |-> ApiError]

\* C7: every trigger sends exactly one POST whose code field is the buffer
\* value at the trigger, the empty buffer included; what the service receives
\* is that value, whatever the buffer has become since
C7_PostCarriesTriggerBuffer ==
    \A i \in Reqs :
        /\ ~Triggered(i) => client[i].posts = 0
        /\ Triggered(i) =>
               /\ i <= nreq
               /\ client[i].posts = 1
               /\ client[i].body.code = client[i].trigCode
               /\ srv[i].st # "none" =>
                      srv[i].reqBody.code = client[i].trigCode

C7_Witness ==
    \E i \in Reqs :
        /\ srv[i].st # "none"
        /\ client[i].trigCode = << >>
        /\ code # << >>
        /\ srv[i].reqBody.code = << >>

\* C8: when the model call succeeds, generateContent returns exactly the text
\* of the model, the empty text included
C8_ReturnsRawText ==
    \A i \in Reqs :
        (srv[i].st = "responded" /\ srv[i].answer.kind = "ok")
            => /\ srv[i].out = [kind |-> "return", val |-> srv[i].answer.val]
               /\ srv[i].logged = << >>

C8_Witness ==
    \E i, j \in Reqs :
        /\ srv[i].st = "responded" /\ srv[i].answer.kind = "ok"
        /\ srv[i].out = [kind |-> "return", val |-> << >>]
        /\ srv[j].st = "responded" /\ srv[j].answer.kind = "ok"
        /\ srv[j].out = [kind |-> "return", val |-> <<"x">>]

\* a request completes once its model call has settled
C9_AnsweredCompletes ==
    \A i \in Reqs :
        (srv[i].st = "answered")
            ~> (srv[i].st = "responded" /\ client[i].st = "done")

\* C9 (as stated): while the model call of a request has neither resolved nor
\* failed, generateContent neither returns nor throws and reviewCode for that
\* request neither sets review nor logs an error; once the call resolves or
\* fails, the request completes
C9_HungCallHangsRequest ==
    /\ [](\A i \in Reqs :
             srv[i].answer = NoAnswer =>
                 /\ srv[i].out = NoOut
                 /\ srv[i].resp = NoResponse
                 /\ ~client[i].applied
                 /\ client[i].logged = << >>)
    /\ C9_AnsweredCompletes

\* C9 (amended): while the model call of a request has neither resolved nor
\* failed, generateContent neither returns nor throws, the service sends no
\* response and reviewCode never sets review for it; reviewCode logs an error
\* for it only if the POST itself fails without a response; once the call
\* resolves or fails, the request completes
C9_NoTimeout ==
    /\ [](\A i \in Reqs :
             srv[i].answer = NoAnswer =>
                 /\ srv[i].out = NoOut
                 /\ srv[i].resp = NoResponse
                 /\ ~client[i].applied
                 /\ client[i].logged \in {<< >>, <<NetworkError>>})
    /\ C9_AnsweredCompletes

C9_Witness ==
    \E i, j \in Reqs :
        /\ srv[i].st = "awaiting" /\ InFlight(i)
        /\ srv[j].st = "responded" /\ Applied(j)

\* C10: each step of the service touches one request only, the outcome of a
\* call is fixed by the model's answer to that call (a failure of another call
\* does not change it), and the configured systemInstruction is never written
C10_RequestsIndependent ==
    [][/\ systemInstruction' = systemInstruction
       /\ \A i \in Reqs :
              /\ srv'[i].modelReq.systemInstruction \in {<< >>, Template}
              /\ srv'[i] # srv[i] => \A j \in Reqs \ {i} : srv'[j] = srv[j]
              /\ srv[i].answer # NoAnswer => srv'[i].answer = srv[i].answer
              /\ srv'[i].out # NoOut =>
                     /\ srv'[i].out.val = srv'[i].answer.val
                     /\ srv'[i].out.kind = "return"
                            <=> srv'[i].answer.kind = "ok"]_vars

C10_Witness ==
    \E i, j \in Reqs :
        /\ srv[i].st = "responded" /\ srv[i].out.kind = "throw"
        /\ srv[j].st = "answered" /\ srv[j].answer.kind = "ok"

====
